---- MODULE Spec2Model ----
(***************************************************************************)
(* validate_doctags of docling_core/utils/validators.py.                   *)
(*                                                                         *)
(* A string is a sequence of one-character strings.  A call strips the     *)
(* whitespace of input_dt, tokenizes the rest with the alternation of the  *)
(* terminal literals (longest first), joins the tokens back into one       *)
(* string and parses that string with the pyparsing grammar, parseAll.     *)
(* Positions (pos, loc) count characters from 0, as in the Python code.    *)
(***************************************************************************)
EXTENDS Integers, Sequences, FiniteSets, TLC

VARIABLES input_dt, hashseed, pc, text, pos, tokens, processed_input, result

vars == <<input_dt, hashseed, pc, text, pos, tokens, processed_input, result>>

(***************************************************************************)
(* docling_core.types.doc.tokens: the token catalog.  The module is not    *)
(* among the sources; its members are taken from the specification's       *)
(* Token Catalog and from the names validators.py refers to.               *)
(***************************************************************************)
LOC_PREFIX == <<"l","o","c","_">>
SECTION_HEADER_PREFIX == <<"s","e","c","t","i","o","n","_","h","e","a","d","e","r","_","l","e","v","e","l","_">>

DOCUMENT == <<"d","o","c","t","a","g">>
OTSL == <<"o","t","s","l">>
ORDERED_LIST == <<"o","r","d","e","r","e","d","_","l","i","s","t">>
UNORDERED_LIST == <<"u","n","o","r","d","e","r","e","d","_","l","i","s","t">>
PAGE_BREAK == <<"p","a","g","e","_","b","r","e","a","k">>
SMILES == <<"s","m","i","l","e","s">>
CAPTION == <<"c","a","p","t","i","o","n">>
FOOTNOTE == <<"f","o","o","t","n","o","t","e">>
FORMULA == <<"f","o","r","m","u","l","a">>
LIST_ITEM == <<"l","i","s","t","_","i","t","e","m">>
PAGE_FOOTER == <<"p","a","g","e","_","f","o","o","t","e","r">>
PAGE_HEADER == <<"p","a","g","e","_","h","e","a","d","e","r">>
PICTURE == <<"p","i","c","t","u","r","e">>
TEXT == <<"t","e","x","t">>
TITLE == <<"t","i","t","l","e">>
CODE == <<"c","o","d","e">>
CHECKBOX_SELECTED == <<"c","h","e","c","k","b","o","x","_","s","e","l","e","c","t","e","d">>
CHECKBOX_UNSELECTED == <<"c","h","e","c","k","b","o","x","_","u","n","s","e","l","e","c","t","e","d">>
PARAGRAPH == <<"p","a","r","a","g","r","a","p","h">>
REFERENCE == <<"r","e","f","e","r","e","n","c","e">>

\* f"<{value}>" and f"</{value}>"
Open(value) == <<"<">> \o value \o <<">">>
Close(value) == <<"<","/">> \o value \o <<">">>

\* The members of the DocumentToken enumeration, in declaration order.
DocumentToken ==
    << DOCUMENT, OTSL, ORDERED_LIST, UNORDERED_LIST, PAGE_BREAK, SMILES,
       CAPTION, FOOTNOTE, FORMULA, LIST_ITEM, PAGE_FOOTER, PAGE_HEADER,
       PICTURE, TEXT, TITLE, CODE, CHECKBOX_SELECTED, CHECKBOX_UNSELECTED,
       PARAGRAPH, REFERENCE >>

\* The section-header levels, the digits of range(6).
SectionLevels == << <<"0">>, <<"1">>, <<"2">>, <<"3">>, <<"4">>, <<"5">> >>

\* TableToken: the OTSL cell kinds and the row separator.
OTSL_ECEL == <<"<","e","c","e","l",">">>
OTSL_FCEL == <<"<","f","c","e","l",">">>
OTSL_LCEL == <<"<","l","c","e","l",">">>
OTSL_UCEL == <<"<","u","c","e","l",">">>
OTSL_XCEL == <<"<","x","c","e","l",">">>
OTSL_NL == <<"<","n","l",">">>
OTSL_CHED == <<"<","c","h","e","d",">">>
OTSL_RHED == <<"<","r","h","e","d",">">>
OTSL_SROW == <<"<","s","r","o","w",">">>

\* TableToken.get_special_tokens()
TableToken ==
    << OTSL_ECEL, OTSL_FCEL, OTSL_LCEL, OTSL_UCEL, OTSL_XCEL, OTSL_NL,
       OTSL_CHED, OTSL_RHED, OTSL_SROW >>

\* _PictureClassificationToken and _CodeLanguageToken (some members of each).
PictureClassificationToken ==
    << <<"<","o","t","h","e","r",">">>,
       <<"<","p","i","e","_","c","h","a","r","t",">">> >>

CodeLanguageToken ==
    << <<"<","_","C","_",">">>,
       <<"<","_","C","+","+","_",">">>,
       <<"<","_","P","y","t","h","o","n","_",">">> >>

\* The location tokens f"<{_LOC_PREFIX}{i}>" (some of the page dimension's).
LocationTokens ==
    << Open(LOC_PREFIX \o <<"0">>),
       Open(LOC_PREFIX \o <<"1">>),
       Open(LOC_PREFIX \o <<"1","0">>),
       Open(LOC_PREFIX \o <<"4","9","9">>) >>

RECURSIVE OpenClosePairs(_)
OpenClosePairs(values) ==
    IF values = << >> THEN << >>
    ELSE << Open(Head(values)), Close(Head(values)) >> \o OpenClosePairs(Tail(values))

RECURSIVE WithPrefix(_, _)
WithPrefix(prefix, suffixes) ==
    IF suffixes = << >> THEN << >>
    ELSE << prefix \o Head(suffixes) >> \o WithPrefix(prefix, Tail(suffixes))

\* DocumentToken.get_special_tokens(): the list of all tag literals.
get_special_tokens ==
    OpenClosePairs(DocumentToken)
    \o OpenClosePairs(WithPrefix(SECTION_HEADER_PREFIX, SectionLevels))
    \o PictureClassificationToken
    \o CodeLanguageToken
    \o TableToken
    \o LocationTokens

\* DocumentToken.create_token_name_from_doc_item_label(label), for the
\* labels validators.py passes: the label's own name.
create_token_name_from_doc_item_label(label) == label

(***************************************************************************)
(* Sequence helpers.                                                       *)
(***************************************************************************)
Range(seq) == { seq[i] : i \in 1..Len(seq) }

RECURSIVE Join(_)
Join(seqs) == IF seqs = << >> THEN << >> ELSE Head(seqs) \o Join(Tail(seqs))

Reverse(seq) == [i \in 1..Len(seq) |-> seq[Len(seq) + 1 - i]]

\* str.startswith(literal, loc): literal occurs in instring at offset loc.
StartsWith(instring, literal, loc) ==
    /\ loc + Len(literal) <= Len(instring)
    /\ \A i \in 1..Len(literal) : instring[loc + i] = literal[i]

(***************************************************************************)
(* Bounds of the model.                                                    *)
(***************************************************************************)
\* How many iteration orders of the terminal set a call may meet.
NumHashSeeds == 3

HashSeeds == 1..NumHashSeeds

\* The documents of the model: pages of a document, rows of a table, cells
\* of a row, lists inside lists, consecutive location tags.
MaxPages == 2
MaxRows == 2
MaxCells == 2
MaxDepth == 3
MaxLocs == 8
MaxTableLen == 4

(***************************************************************************)
(* The terminal set and its iteration order.  terminals is a Python set:   *)
(* list(terminals) and filter(..., terminals) enumerate it in an order     *)
(* that the string hash seed of the process decides.                       *)
(***************************************************************************)
content_symbol == <<"C","o","n","t","e","n","t">>

\* terminals with one more member, "<loc_", a proper prefix of every
\* location tag.
terminals_WithPrefix ==
    get_special_tokens \o << content_symbol >> \o << << "<" >> \o LOC_PREFIX >>

\* The members of the set terminals: set(get_special_tokens()) with
\* content_symbol added.
terminals == get_special_tokens \o << content_symbol >>

Rotate(seq, k) ==
    IF seq = << >> THEN seq
    ELSE LET n == Len(seq) IN [i \in 1..n |-> seq[((i - 1 + k) % n) + 1]]

\* The order in which a set with these members is iterated under hash seed
\* h (the orders of different seeds differ).
IterationOrder(members, h) ==
    LET rotated == Rotate(members, 7 * (h - 1))
    IN  IF h % 2 = 0 THEN Reverse(rotated) ELSE rotated

LongestLen(seq) ==
    IF seq = << >> THEN 0
    ELSE LET lens == { Len(seq[i]) : i \in 1..Len(seq) }
         IN  CHOOSE n \in lens : \A k \in lens : k <= n

\* sorted(seq, key=len, reverse=True): stable, longest first.
SortedByLenReverse(seq) ==
    LET m == LongestLen(seq)
        OfLen(n) == SelectSeq(seq, LAMBDA x : Len(x) = n)
    IN  Join([i \in 1..m |-> OfLen(m + 1 - i)])

\* re.compile("|".join(map(re.escape, sorted(list(terminals), ...)))): the
\* alternatives of the pattern, in the order the regex engine tries them.
token_regex(h) == SortedByLenReverse(IterationOrder(terminals, h))

\* The compiled pattern of each hash seed.
compiled == [h \in HashSeeds |-> token_regex(h)]

\* token_regex.match(text, pos): the first alternative that matches at pos,
\* << >> for None.
RECURSIVE FirstMatch(_, _, _, _)
FirstMatch(alternatives, i, string, loc) ==
    IF i > Len(alternatives) THEN << >>
    ELSE IF StartsWith(string, alternatives[i], loc) THEN alternatives[i]
    ELSE FirstMatch(alternatives, i + 1, string, loc)

regex_match(regex, string, loc) == FirstMatch(regex, 1, string, loc)

\* while pos < len(text) and not token_regex.match(text, pos): pos += 1
RECURSIVE SkipRun(_, _, _)
SkipRun(regex, string, p) ==
    IF p < Len(string) /\ regex_match(regex, string, p) = << >>
    THEN SkipRun(regex, string, p + 1)
    ELSE p

\* One iteration of the outer loop of tokenize_input from (pos, tokens).
TokenizeStep(regex, string, p, toks) ==
    LET match == regex_match(regex, string, p)
    IN  IF match # << >>
        THEN [pos |-> p + Len(match), tokens |-> Append(toks, match)]
        ELSE [pos |-> SkipRun(regex, string, p), tokens |-> Append(toks, content_symbol)]

RECURSIVE TokenizeLoop(_, _, _, _)
TokenizeLoop(regex, string, p, toks) ==
    IF p < Len(string)
    THEN LET next == TokenizeStep(regex, string, p, toks)
         IN  TokenizeLoop(regex, string, next.pos, next.tokens)
    ELSE toks

tokenize_input(string, h) == TokenizeLoop(compiled[h], string, 0, << >>)

\* The characters str.split() splits on.
Whitespace == {" ", "\n", "\t"}

\* The string as it is, whitespace kept.
RemoveWhitespace_Kept(s) == s

\* "".join(s.split())
RemoveWhitespace(s) == SelectSeq(s, LAMBDA c : c \notin Whitespace)

preprocess(s, h) == Join(tokenize_input(RemoveWhitespace(s), h))

(***************************************************************************)
(* pyparsing.  A parser element is a record; a Forward is looked up by     *)
(* name in the grammar G.  parseImpl gives the offset after the match, or  *)
(* -1 for a raised ParseException.  pyparsing commits to the first         *)
(* alternative that matches and to the longest repetition; Optional and    *)
(* the repetitions return to where they started when their element fails.  *)
(* looped records that an element was entered again at the offset of its   *)
(* own pending expansion, or that a repetition matched without advancing:  *)
(* the two ways the recursion of pyparsing fails to terminate.             *)
(***************************************************************************)
Literal(match_string) == [type |-> "Literal", match |-> match_string]
And(exprs) == [type |-> "And", exprs |-> exprs]
MatchFirst(exprs) == [type |-> "MatchFirst", exprs |-> exprs]
Optional(expr) == [type |-> "Optional", expr |-> expr]
OneOrMore(expr) == [type |-> "OneOrMore", expr |-> expr]
ZeroOrMore(expr) == [type |-> "ZeroOrMore", expr |-> expr]
Group(expr) == [type |-> "Group", expr |-> expr]
Suppress(expr) == [type |-> "Suppress", expr |-> expr]
Forward(name) == [type |-> "Forward", name |-> name]

\* delimitedList(expr, delim): expr + ZeroOrMore(Suppress(delim) + expr)
delimitedList(expr, delim) ==
    And(<< expr, ZeroOrMore(And(<< Suppress(delim), expr >>)) >>)

ParseException == [loc |-> -1, looped |-> FALSE]

Matched(loc) == [loc |-> loc, looped |-> FALSE]

Also(r, flag) == [loc |-> r.loc, looped |-> r.looped \/ flag]

RECURSIVE parseImpl(_, _, _, _, _)
RECURSIVE ParseAnd(_, _, _, _, _, _)
RECURSIVE ParseMatchFirst(_, _, _, _, _, _)
RECURSIVE ParseMore(_, _, _, _, _)

\* And.parseImpl: the elements in sequence; the first failure is raised.
ParseAnd(G, exprs, i, instring, loc, active) ==
    IF i > Len(exprs) THEN Matched(loc)
    ELSE LET r == parseImpl(G, exprs[i], instring, loc, active)
         IN  IF r.loc = -1 THEN r
             ELSE Also(ParseAnd(G, exprs, i + 1, instring, r.loc, active), r.looped)

\* MatchFirst.parseImpl: the first alternative that matches wins.
ParseMatchFirst(G, exprs, i, instring, loc, active) ==
    IF i > Len(exprs) THEN ParseException
    ELSE LET r == parseImpl(G, exprs[i], instring, loc, active)
         IN  IF r.loc # -1 THEN r
             ELSE Also(ParseMatchFirst(G, exprs, i + 1, instring, loc, active), r.looped)

\* The loop of OneOrMore/ZeroOrMore after the first match: repeat until the
\* element fails.
ParseMore(G, expr, instring, loc, active) ==
    LET r == parseImpl(G, expr, instring, loc, active)
    IN  IF r.loc = -1 THEN [loc |-> loc, looped |-> r.looped]
        ELSE IF r.loc = loc THEN [loc |-> loc, looped |-> TRUE]
        ELSE Also(ParseMore(G, expr, instring, r.loc, active), r.looped)

parseImpl(G, e, instring, loc, active) ==
    CASE e.type = "Literal" ->
            IF StartsWith(instring, e.match, loc)
            THEN Matched(loc + Len(e.match))
            ELSE ParseException
      [] e.type = "And" -> ParseAnd(G, e.exprs, 1, instring, loc, active)
      [] e.type = "MatchFirst" -> ParseMatchFirst(G, e.exprs, 1, instring, loc, active)
      [] e.type = "Optional" ->
            LET r == parseImpl(G, e.expr, instring, loc, active)
            IN  IF r.loc = -1 THEN [loc |-> loc, looped |-> r.looped] ELSE r
      [] e.type = "OneOrMore" ->
            LET r == parseImpl(G, e.expr, instring, loc, active)
            IN  IF r.loc = -1 THEN r
                ELSE Also(ParseMore(G, e.expr, instring, r.loc, active), r.looped)
      [] e.type = "ZeroOrMore" -> ParseMore(G, e.expr, instring, loc, active)
      [] e.type \in {"Group", "Suppress"} -> parseImpl(G, e.expr, instring, loc, active)
      [] e.type = "Forward" ->
            IF << e.name, loc >> \in active
            THEN [loc |-> -1, looped |-> TRUE]
            ELSE parseImpl(G, G[e.name], instring, loc, active \cup {<< e.name, loc >>})

\* expr.parseString(instring, parseAll): with parseAll the match must end at
\* the end of the string.
parseString(G, expr, instring, parseAll) ==
    LET r == parseImpl(G, expr, instring, 0, {})
    IN  IF r.loc # -1 /\ parseAll /\ r.loc # Len(instring)
        THEN Also(ParseException, r.looped)
        ELSE r

(***************************************************************************)
(* The grammar of validate_doctags.                                        *)
(***************************************************************************)
text_labels ==
    << CAPTION, CHECKBOX_SELECTED, CHECKBOX_UNSELECTED, FOOTNOTE, PAGE_FOOTER,
       PAGE_HEADER, PARAGRAPH, REFERENCE, TEXT, FORMULA, TITLE >>

\* Whether the string sub occurs in the string tag (sub in tag).
Contains(tag, sub) == \E i \in 0..(Len(tag) - Len(sub)) : StartsWith(tag, sub, i)

Literals(strings) == [i \in 1..Len(strings) |-> Literal(strings[i])]

start ==
    And(<< Literal(Open(DOCUMENT)), Forward("body"), Literal(Close(DOCUMENT)) >>)

page == OneOrMore(Forward("docitem"))

body == delimitedList(Forward("page"), Literal(Open(PAGE_BREAK)))

docitem ==
    MatchFirst(<< Forward("textitem"), Forward("tableitem"), Forward("pictureitem"),
                  Forward("orderedlist"), Forward("unorderedlist") >>)

text_label_items ==
    [i \in 1..Len(text_labels) |->
        And(<< Literal(Open(create_token_name_from_doc_item_label(text_labels[i]))),
               Forward("textbody"),
               Literal(Close(create_token_name_from_doc_item_label(text_labels[i]))) >>)]
    \o [i \in 1..Len(SectionLevels) |->
        And(<< Literal(Open(SECTION_HEADER_PREFIX \o SectionLevels[i])),
               Forward("textbody"),
               Literal(Close(SECTION_HEADER_PREFIX \o SectionLevels[i])) >>)]
    \o << And(<< Literal(Open(CODE)), Forward("codebody"), Literal(Close(CODE)) >>) >>

textitem == MatchFirst(text_label_items)

\* Location tags in any number: loctag+
FourLoctags_AnyNumber == OneOrMore(Forward("loctag"))

\* loctag + loctag + loctag + loctag
FourLoctags ==
    And(<< Forward("loctag"), Forward("loctag"), Forward("loctag"), Forward("loctag") >>)

textbody == And(<< Optional(FourLoctags), Optional(Literal(content_symbol)) >>)

codebody ==
    And(<< Optional(FourLoctags),
           Optional(And(<< Forward("codelang"), Literal(content_symbol) >>)) >>)

codelang == MatchFirst(Literals(CodeLanguageToken))

\* list(map(Literal, filter(lambda tag: _LOC_PREFIX in tag, terminals)))
loctags(h) ==
    Literals(SelectSeq(IterationOrder(terminals, h),
                       LAMBDA tag : Contains(tag, LOC_PREFIX)))

loctag(h) == MatchFirst(loctags(h))

\* tableitem that takes a <nl> after the rows with or without a caption.
tableitem_NlAlone ==
    And(<< Literal(Open(OTSL)),
           Optional(FourLoctags),
           Optional(Forward("tablebody")),
           Optional(And(<< Literal(OTSL_NL), Optional(Forward("caption")) >>)),
           Literal(Close(OTSL)) >>)

tableitem ==
    And(<< Literal(Open(OTSL)),
           Optional(FourLoctags),
           Optional(Forward("tablebody")),
           Optional(And(<< Literal(OTSL_NL), Forward("caption") >>)),
           Literal(Close(OTSL)) >>)

caption ==
    And(<< Literal(Open(CAPTION)),
           Optional(FourLoctags),
           Optional(Literal(content_symbol)),
           Literal(Close(CAPTION)) >>)

\* tablebody written with the recursion on the left: (tablebody <nl>)? row
tablebody_LeftRecursive ==
    And(<< Optional(And(<< Forward("tablebody"), Literal(OTSL_NL) >>)), Forward("row") >>)

tablebody ==
    And(<< Forward("row"), Optional(And(<< Literal(OTSL_NL), Forward("tablebody") >>)) >>)

row == OneOrMore(Forward("cell"))

celltags ==
    LET toks == SelectSeq(TableToken, LAMBDA tok : tok # OTSL_NL)
    IN  [i \in 1..Len(toks) |->
            And(<< Literal(toks[i]), Optional(Literal(content_symbol)) >>)]

cell == MatchFirst(celltags)

pictureitem ==
    And(<< Literal(Open(PICTURE)),
           Optional(FourLoctags),
           Optional(Forward("picclass")),
           Optional(Forward("smiles")),
           Optional(Forward("caption")),
           Literal(Close(PICTURE)) >>)

picclass == MatchFirst(Literals(PictureClassificationToken))

smiles ==
    And(<< Literal(Open(SMILES)), Literal(content_symbol), Literal(Close(SMILES)) >>)

orderedlist ==
    Group(And(<< Suppress(Literal(Open(ORDERED_LIST))),
                 OneOrMore(Forward("listitem")),
                 Suppress(Literal(Close(ORDERED_LIST))) >>))

unorderedlist ==
    Group(And(<< Suppress(Literal(Open(UNORDERED_LIST))),
                 OneOrMore(Forward("listitem")),
                 Suppress(Literal(Close(UNORDERED_LIST))) >>))

listitem ==
    Group(And(<< Suppress(Literal(Open(LIST_ITEM))),
                 Forward("listitembody"),
                 Suppress(Literal(Close(LIST_ITEM))) >>))

listitembody ==
    MatchFirst(<< Forward("orderedlist"), Forward("unorderedlist"), Forward("textbody") >>)

\* The Forward objects of one call, by name.
Grammar(h) ==
    [ start |-> start, body |-> body, docitem |-> docitem, textitem |-> textitem,
      textbody |-> textbody, loctag |-> loctag(h), tableitem |-> tableitem,
      tablebody |-> tablebody, row |-> row, cell |-> cell, page |-> page,
      caption |-> caption, pictureitem |-> pictureitem, picclass |-> picclass,
      smiles |-> smiles, codelang |-> codelang, codebody |-> codebody,
      orderedlist |-> orderedlist, unorderedlist |-> unorderedlist,
      listitem |-> listitem, listitembody |-> listitembody ]

\* The grammar of each hash seed.
grammars == [h \in HashSeeds |-> Grammar(h)]

\* start.parseString(s) without parseAll: a match of a prefix is a match.
Parsed_PrefixOnly(s, h) == parseString(grammars[h], Forward("start"), s, FALSE)

\* start.parseString(s, parseAll=True)
Parsed(s, h) == parseString(grammars[h], Forward("start"), s, TRUE)

\* is_valid without its try/except: the exception of the parse leaves the
\* call.
is_valid_Uncaught(s, h) == IF Parsed(s, h).loc = -1 THEN "ParseException" ELSE "True"

\* is_valid: True when the parse returns, False when it raises.
is_valid(s, h) == IF Parsed(s, h).loc = -1 THEN "False" ELSE "True"

\* validate_doctags(input_dt), as a function of the input and the hash seed.
validate_doctags(s, h) == is_valid(preprocess(s, h), h)

(***************************************************************************)
(* Inputs.  A document is written with the tag literals and free text.     *)
(***************************************************************************)
Doc(inner) == Open(DOCUMENT) \o inner \o Close(DOCUMENT)

Item(label, inner) == Open(label) \o inner \o Close(label)

\* k location tags: the a-th of the catalog, then every b-th after it.
Locs(k, a, b) ==
    Join([i \in 1..k |-> LocationTokens[((a + (i - 1) * b) % Len(LocationTokens)) + 1]])

Loc4 == Locs(4, 0, 1)

\* Free text, with and without inner whitespace, an unknown tag, a broken
\* tag, text that spells the content symbol.
FreeTexts ==
    { <<"a">>,
      <<"h","i"," ","y","o","u">>,
      <<"<","f","o","o",">","b","a","r","<","/","f","o","o",">">>,
      <<"<","t","e","x","t">>,
      <<"x">> \o content_symbol,
      content_symbol \o content_symbol }

\* Bodies of a document: derivable ones and others.
CoreBodies ==
    { << >>,
      Item(TEXT, << >>),
      Item(TEXT, Loc4 \o <<"a">>),
      Item(TITLE, <<"a">>) \o Open(PAGE_BREAK) \o Item(TEXT, << >>),
      Item(TEXT, << >>) \o Open(PAGE_BREAK),
      Item(TEXT, <<"a">>) \o Close(TITLE),
      Item(OTSL, OTSL_FCEL \o <<"1">> \o OTSL_NL \o OTSL_ECEL),
      Item(OTSL, OTSL_FCEL \o OTSL_NL \o Item(CAPTION, <<"c">>)),
      Item(PICTURE, Loc4 \o Item(SMILES, <<"C","C","O">>)),
      Item(CODE, CodeLanguageToken[3] \o <<"x","=","1">>),
      Item(ORDERED_LIST, Item(LIST_ITEM, Item(UNORDERED_LIST, Item(LIST_ITEM, <<"a">>)))),
      Item(UNORDERED_LIST, Item(LIST_ITEM, << >>) \o Item(LIST_ITEM, Loc4)) }
    \cup { Item(TEXT, t) : t \in FreeTexts }

\* What may stand before the opening tag and after the closing tag.
Befores == { << >>, <<"a">>, Item(TEXT, << >>), Close(DOCUMENT) }

Afters == { << >>, <<"a">>, <<" ">>, Item(TEXT, << >>), Doc(Item(TEXT, << >>)) }

CoreInputs ==
    { b \o Doc(d) \o a : b \in Befores, d \in CoreBodies, a \in Afters }
    \cup { << >>, <<" ">>, Open(DOCUMENT), content_symbol }
    \cup FreeTexts

InsertAt(s, i, w) == SubSeq(s, 1, i) \o w \o SubSeq(s, i + 1, Len(s))

\* Whitespace put at any one place of a document: inside a tag, between
\* tags, inside free text.  The text of the first document has whitespace
\* of its own.
WhitespaceStrings == { << " " >>, << "\n" >>, << "\t", " " >> }

WsBases ==
    { Doc(Item(TEXT, <<"a"," ","b">>)),
      Doc(Item(PICTURE, Item(SMILES, <<"a">>))),
      Doc(Item(PICTURE, Item(SMILES, << >>))),
      Doc(Item(TEXT, <<"a">>) \o Close(TITLE)) }

WsInputs ==
    WsBases
    \cup UNION { { InsertAt(b, i, w) : i \in 0..Len(b), w \in WhitespaceStrings } :
                   b \in WsBases }

\* Sequences of length 1..n over the members of S.
SeqsUpTo(S, n) == UNION { [1..k -> S] : k \in 1..n }

\* The strings joined with sep between them.
JoinWith(seqs, sep) ==
    Join([i \in 1..Len(seqs) |-> IF i = 1 THEN seqs[i] ELSE sep \o seqs[i]])

\* Pages and tables, in the manner of the document of test_validate_doctags.
\* Free text of items: plain text, and text with the word Content in it.
PlainContent == <<"a","b">>

Contents == <<"C","o","n","t","e","n","t","s">>

ItemContents == { PlainContent, Contents }

TextItemFull(label, content) == Item(label, Loc4 \o content)

CellTags == SelectSeq(TableToken, LAMBDA tok : tok # OTSL_NL)

\* The j-th cell of row i: every other cell has content.
TableCell(i, j) ==
    CellTags[((i + j) % Len(CellTags)) + 1] \o (IF (i + j) % 2 = 0 THEN <<"1">> ELSE << >>)

TableRows(r, c) ==
    JoinWith([i \in 1..r |-> Join([j \in 1..c |-> TableCell(i, j)])], OTSL_NL)

CaptionFull(content) == Item(CAPTION, Locs(4, 1, 3) \o content)

CaptionedTable(r, c, content) ==
    Item(OTSL, Loc4 \o TableRows(r, c) \o OTSL_NL \o CaptionFull(content))

PageKinds == {"text", "table", "mixed"}

PageOf(kind, r, c, content) ==
    CASE kind = "text" ->
            TextItemFull(PAGE_HEADER, PlainContent)
            \o TextItemFull(SECTION_HEADER_PREFIX \o <<"1">>, content)
            \o TextItemFull(TEXT, PlainContent)
      [] kind = "table" -> CaptionedTable(r, c, content)
      [] kind = "mixed" ->
            TextItemFull(PAGE_HEADER, PlainContent) \o CaptionedTable(r, c, PlainContent)
            \o TextItemFull(TEXT, content)

PagesDocOf(kinds, r, c, content) ==
    Doc(JoinWith([i \in 1..Len(kinds) |-> PageOf(kinds[i], r, c, content)],
                 Open(PAGE_BREAK)))

PagesDocsWith(contents) ==
    { PagesDocOf(kinds, r, c, content) :
        kinds \in SeqsUpTo(PageKinds, MaxPages), r \in 1..MaxRows, c \in 1..MaxCells,
        content \in contents }

\* Documents of pages separated by single page breaks, each page text
\* items and/or a captioned table.
PagesDocs == PagesDocsWith(ItemContents)

\* Those of them whose free text is plain.
PlainPagesDocs == PagesDocsWith({ PlainContent })

\* Documents that are not of that form.
PagesNearMisses ==
    { Doc(PageOf("text", 1, 1, PlainContent) \o Open(PAGE_BREAK) \o Open(PAGE_BREAK) \o PageOf("table", 1, 1, PlainContent)),
      Doc(PageOf("table", 2, 1, PlainContent) \o Open(PAGE_BREAK)),
      Doc(Open(PAGE_BREAK) \o PageOf("text", 1, 1, PlainContent)),
      Doc(Item(OTSL, Loc4 \o TableRows(2, 2) \o CaptionFull(PlainContent))),
      Doc(Item(OTSL, Loc4 \o TableRows(2, 2) \o OTSL_NL)),
      Doc(Item(OTSL, Loc4 \o TableRows(1, 2) \o OTSL_NL \o OTSL_NL \o TableRows(1, 1))),
      Doc(Item(OTSL, Loc4 \o TableRows(1, 2) \o OTSL_NL \o OTSL_NL \o CaptionFull(PlainContent))),
      Doc(Item(OTSL, OTSL_NL \o TableRows(1, 2))),
      Doc(Item(OTSL, OTSL_NL \o CaptionFull(PlainContent))),
      Doc(Item(OTSL, Loc4 \o TableRows(2, 2))),
      Doc(Open(OTSL) \o Loc4 \o TableRows(1, 1) \o OTSL_NL \o Open(CAPTION) \o Close(OTSL)
          \o Close(CAPTION)) }

PagesInputs == PagesDocs \cup PagesNearMisses

\* Lists inside lists.
ListKinds == { ORDERED_LIST, UNORDERED_LIST }

\* The list of kind kinds[i], its one item holding the list of kind
\* kinds[i + 1], and so on; the item of the innermost list holds inner.
RECURSIVE ListChain(_, _, _)
ListChain(kinds, i, inner) ==
    IF i > Len(kinds) THEN inner
    ELSE Item(kinds[i], Item(LIST_ITEM, ListChain(kinds, i + 1, inner)))

PlainListItemBodies == { << >>, <<"a">>, Loc4, Locs(4, 3, 0) \o <<"a">> }

ListItemBodies == PlainListItemBodies \cup { Contents }

ListChainDocsWith(bodies) ==
    { Doc(ListChain(kinds, 1, inner)) :
        kinds \in SeqsUpTo(ListKinds, MaxDepth), inner \in bodies }

ListChainDocs == ListChainDocsWith(ListItemBodies)

\* Those of them whose free text, if any, is plain.
PlainListChainDocs == ListChainDocsWith(PlainListItemBodies)

\* The innermost of the lists has no list item.
ListNoItemDocs ==
    { Doc(Item(k, << >>)) : k \in ListKinds }
    \cup { Doc(ListChain(kinds, 1, Item(k, << >>))) :
             kinds \in SeqsUpTo(ListKinds, MaxDepth - 1), k \in ListKinds }

\* The item of the innermost but one holds a list and text, in either order.
ListMixedDocs ==
    { Doc(ListChain(kinds, 1, ListChain(<< k >>, 1, inner) \o <<"a">>)) :
        kinds \in SeqsUpTo(ListKinds, MaxDepth - 1), k \in ListKinds,
        inner \in ListItemBodies }
    \cup { Doc(ListChain(kinds, 1, <<"a">> \o ListChain(<< k >>, 1, inner))) :
        kinds \in SeqsUpTo(ListKinds, MaxDepth - 1), k \in ListKinds,
        inner \in ListItemBodies }

ListInputs == ListChainDocs \cup ListNoItemDocs \cup ListMixedDocs

\* Items with k location tags after the open tag.
LocPatterns == { << a, b >> : a \in {0, 2}, b \in {0, 1, 3} }

LocContents == { << >>, <<"a">> }

\* The documents with one item of each kind that takes location tags, with
\* locs after its open tag; with content, the item has content where its
\* production takes content.
LocItems(locs, content) ==
    { Item(TEXT, locs \o content),
      Item(TITLE, locs \o content),
      Item(CAPTION, locs \o content),
      Item(SECTION_HEADER_PREFIX \o <<"1">>, locs \o content),
      Item(CODE, locs \o (IF content = << >> THEN << >> ELSE CodeLanguageToken[1] \o content)),
      Item(OTSL, locs \o (IF content = << >> THEN << >> ELSE OTSL_FCEL \o content)),
      Item(PICTURE, locs \o (IF content = << >> THEN << >> ELSE Item(SMILES, content))),
      Item(PICTURE, Item(CAPTION, locs \o content)),
      Item(OTSL, OTSL_FCEL \o OTSL_NL \o Item(CAPTION, locs \o content)) }

LocDocsOf(k) ==
    UNION { { Doc(item) : item \in LocItems(Locs(k, p[1], p[2]), content) } :
              p \in LocPatterns, content \in LocContents }

\* The documents by their number of location tags.
LocDocs == [k \in 0..MaxLocs |-> LocDocsOf(k)]

LocInputs == UNION { LocDocs[k] : k \in 0..MaxLocs }

\* Tables whose body is any sequence of cells and <nl>.
\* "c" is a cell, "d" a cell with content, "n" a <nl>.
TablePieces == { "c", "d", "n" }

TablePiece(piece) ==
    CASE piece = "c" -> OTSL_FCEL
      [] piece = "d" -> OTSL_ECEL \o <<"1">>
      [] piece = "n" -> OTSL_NL

TableBodyOf(pieces) == Join([i \in 1..Len(pieces) |-> TablePiece(pieces[i])])

TableBodies == { << >> } \cup SeqsUpTo(TablePieces, MaxTableLen)

\* The table with that body, and with a caption after a further <nl>.
TableDocOf(pieces, captioned) ==
    Doc(Item(OTSL, Loc4 \o TableBodyOf(pieces)
                   \o (IF captioned THEN OTSL_NL \o CaptionFull(PlainContent) ELSE << >>)))

\* Rows of at least one cell with one <nl> between them, or no row at all.
RowsSeparated(pieces) ==
    \/ pieces = << >>
    \/ /\ pieces[1] # "n"
       /\ pieces[Len(pieces)] # "n"
       /\ \A i \in 1..(Len(pieces) - 1) : ~(pieces[i] = "n" /\ pieces[i + 1] = "n")

\* The tables by whether their rows are separated so.
TableDocs ==
    [separated \in BOOLEAN |->
        { TableDocOf(pieces, captioned) :
            pieces \in { b \in TableBodies : RowsSeparated(b) = separated },
            captioned \in BOOLEAN }]

\* Tables with a caption that is not immediately before </otsl>.
TableCaptionInside ==
    { Doc(Item(OTSL, Loc4 \o TableBodyOf(pieces) \o OTSL_NL \o CaptionFull(PlainContent)
                     \o TableBodyOf(rest))) :
        pieces \in { << "c" >>, << "d", "n", "c" >> },
        rest \in { << "c" >>, << "n", "c" >>, << "n" >> } }
    \cup { Doc(Item(OTSL, Loc4 \o OTSL_FCEL \o OTSL_NL \o CaptionFull(PlainContent)
                          \o OTSL_NL \o CaptionFull(PlainContent))) }

TableInputs == TableDocs[TRUE] \cup TableDocs[FALSE] \cup TableCaptionInside

(***************************************************************************)
(* One call of validate_doctags(input_dt), step by step.                   *)
(***************************************************************************)
TypeOK ==
    /\ hashseed \in HashSeeds
    /\ pc \in {"idle", "preprocess", "tokenize", "is_valid", "done"}
    /\ pos \in 0..Len(text)
    /\ result \in {"None", "True", "False"}

\* No call is running: the process has its hash seed, a call has no locals.
Init ==
    /\ hashseed \in HashSeeds
    /\ pc = "idle"
    /\ input_dt = << >>
    /\ text = << >>
    /\ pos = 0
    /\ tokens = << >>
    /\ processed_input = << >>
    /\ result = "None"

\* validate_doctags(input_dt) is called with one of the inputs.
Call(inputs) ==
    /\ pc = "idle"
    /\ input_dt' \in inputs
    /\ pc' = "preprocess"
    /\ UNCHANGED << hashseed, text, pos, tokens, processed_input, result >>

\* "".join(input_dt.split()), and the entry of tokenize_input
Split ==
    /\ pc = "preprocess"
    /\ text' = RemoveWhitespace(input_dt)
    /\ pos' = 0
    /\ tokens' = << >>
    /\ pc' = "tokenize"
    /\ UNCHANGED << input_dt, hashseed, processed_input, result >>

\* An iteration of the loop of tokenize_input where the pattern matches.
TokenizeTerminal ==
    /\ pc = "tokenize"
    /\ pos < Len(text)
    /\ regex_match(compiled[hashseed], text, pos) # << >>
    /\ LET next == TokenizeStep(compiled[hashseed], text, pos, tokens)
       IN  pos' = next.pos /\ tokens' = next.tokens
    /\ UNCHANGED << input_dt, hashseed, pc, text, processed_input, result >>

\* An iteration of the loop of tokenize_input where it does not.
TokenizeContent ==
    /\ pc = "tokenize"
    /\ pos < Len(text)
    /\ regex_match(compiled[hashseed], text, pos) = << >>
    /\ LET next == TokenizeStep(compiled[hashseed], text, pos, tokens)
       IN  pos' = next.pos /\ tokens' = next.tokens
    /\ UNCHANGED << input_dt, hashseed, pc, text, processed_input, result >>

\* The loop of tokenize_input ends; preprocess joins the tokens.
TokenizeReturn ==
    /\ pc = "tokenize"
    /\ pos >= Len(text)
    /\ processed_input' = Join(tokens)
    /\ pc' = "is_valid"
    /\ UNCHANGED << input_dt, hashseed, text, pos, tokens, result >>

\* return is_valid(processed_input)
IsValid ==
    /\ pc = "is_valid"
    /\ result' = is_valid(processed_input, hashseed)
    /\ pc' = "done"
    /\ UNCHANGED << input_dt, hashseed, text, pos, tokens, processed_input >>

\* The call has returned its result; its locals are gone.
Return ==
    /\ pc = "done"
    /\ pc' = "idle"
    /\ input_dt' = << >>
    /\ text' = << >>
    /\ pos' = 0
    /\ tokens' = << >>
    /\ processed_input' = << >>
    /\ result' = "None"
    /\ UNCHANGED hashseed

Steps == Split \/ TokenizeTerminal \/ TokenizeContent \/ TokenizeReturn \/ IsValid \/ Return

Next == Call(CoreInputs) \/ Steps

Spec == Init /\ [][Next]_vars

NextWs == Call(WsInputs) \/ Steps

SpecWs == Init /\ [][NextWs]_vars

NextPages == Call(PagesInputs) \/ Steps

SpecPages == Init /\ [][NextPages]_vars

NextList == Call(ListInputs) \/ Steps

SpecList == Init /\ [][NextList]_vars

NextLoc == Call(LocInputs) \/ Steps

SpecLoc == Init /\ [][NextLoc]_vars

NextTable == Call(TableInputs) \/ Steps

SpecTable == Init /\ [][NextTable]_vars

\* The steps of a call compute validate_doctags.
StepsComputeFunction ==
    pc = "done" => result = validate_doctags(input_dt, hashseed)

(***************************************************************************)
(* Properties.                                                             *)
(***************************************************************************)
Accepted == pc = "done" /\ result = "True"

Rejected == pc = "done" /\ result = "False"

\* The token sequences that are a strict, non-empty prefix of tokens and
\* are accepted on their own.
AcceptedStrictPrefixes ==
    { n \in 1..(Len(tokens) - 1) :
        is_valid(Join(SubSeq(tokens, 1, n)), hashseed) = "True" }

\* C1: only a token sequence derived as a whole from the start symbol is
\* accepted: when the tokens of the input extend an accepted token sequence
\* by one or more tokens the input is rejected, and so is an input whose
\* first token is not the opening <doctag>.
C1_FullConsumption ==
    pc = "done" =>
        /\ AcceptedStrictPrefixes # {} => result = "False"
        /\ (tokens # << >> /\ tokens[1] # Open(DOCUMENT)) => result = "False"

\* C1 witness: an accepted document followed by further tokens was rejected.
C1_Witness ==
    /\ Rejected
    /\ AcceptedStrictPrefixes # {}
    /\ tokens[1] = Open(DOCUMENT)

\* The tag literals of the token catalog, longest first: the pattern of the
\* tags alone, without the content symbol.
CatalogPattern == SortedByLenReverse(get_special_tokens)

\* A string cut at the tag literals of the catalog: the tags, and
\* content_symbol in place of every maximal run of characters between or
\* around them.
CatalogCut(string) == TokenizeLoop(CatalogPattern, string, 0, << >>)

NumContent(toks) == Cardinality({ i \in 1..Len(toks) : toks[i] = content_symbol })

\* C2: the tokenizer emits exactly one content placeholder per maximal run
\* of characters between or around tag literals of the catalog, so that no
\* two content placeholders are adjacent in the token sequence.
C2_RunCollapsing ==
    /\ \A i \in 1..(Len(tokens) - 1) :
          ~(tokens[i] = content_symbol /\ tokens[i + 1] = content_symbol)
    /\ pc \in {"is_valid", "done"} => NumContent(tokens) = NumContent(CatalogCut(text))

\* A string with its whitespace characters deleted.
DeleteWhitespace(s) == SelectSeq(s, LAMBDA c : c # " " /\ c # "\n" /\ c # "\t")

\* C3: whitespace invariance.  The result of a call is the result for the
\* input with all its whitespace deleted; two inputs that are equal after
\* deleting whitespace have the same whitespace-free string, hence the same
\* result.
C3_WhitespaceInvariance ==
    pc = "done" => result = validate_doctags(DeleteWhitespace(input_dt), hashseed)

\* C3 witness: a document with whitespace inside a tag was accepted.
C3_Witness ==
    /\ Accepted
    /\ \E i \in 1..(Len(input_dt) - 1) :
          input_dt[i] = "<" /\ input_dt[i + 1] \in Whitespace

\* C4: every call ends with a boolean.  The result is True or False and
\* nothing else; it is False when the parse of the joined tokens raises,
\* and False for the empty string; and the tokenizer has no failure: it
\* reads the text to its end and every token it gives is a terminal or the
\* content placeholder.
C4_AlwaysBoolean ==
    /\ pc = "done" => result \in {"True", "False"}
    /\ (pc = "done" /\ Parsed(processed_input, hashseed).loc = -1) => result = "False"
    /\ (pc = "done" /\ input_dt = << >>) => result = "False"
    /\ pc \in {"is_valid", "done"} =>
          /\ pos = Len(text)
          /\ \A i \in 1..Len(tokens) : tokens[i] \in Range(terminals)

\* C4 witness: a document with a mismatched close tag, its text tokenized as
\* a content placeholder, was rejected with False.
C4_Witness ==
    /\ Rejected
    /\ tokens # << >> /\ tokens[1] = Open(DOCUMENT)
    /\ \E i \in 2..(Len(tokens) - 1) :
          tokens[i] = content_symbol /\ tokens[i + 1] = Close(TITLE)

\* C5: validation terminates.  Every iteration of the tokenizer's loop moves
\* pos forward and appends exactly one token, so that the loop runs at most
\* len(text) times; the parse enters no non-terminal again at the offset of
\* its own pending expansion and no repetition matches without advancing.
C5_Termination ==
    /\ [][(pc = "tokenize" /\ pos < Len(text))
            => (pos' > pos /\ pos' <= Len(text) /\ Len(tokens') = Len(tokens) + 1)]_vars
    /\ [](Len(tokens) <= pos)
    /\ [](pc = "done" => ~Parsed(processed_input, hashseed).looped)

\* C5 witness: a table of two rows, where tablebody is entered inside
\* tablebody, was parsed to the end.
C5_Witness ==
    /\ Accepted
    /\ \E i \in 1..Len(tokens) : tokens[i] = OTSL_NL

\* A string with every maximal run of characters between or around the tag
\* literals of the catalog replaced by the one-character run "x".
Canon(string) ==
    LET cut == CatalogCut(string)
    IN  Join([i \in 1..Len(cut) |-> IF cut[i] = content_symbol THEN << "x" >> ELSE cut[i]])

\* C7: the validator is structure-only: replacing a non-empty run of
\* characters that holds no tag of the catalog by another such run does not
\* change the result, so every input has the result of the input with each
\* of its runs replaced by "x".
C7_StructureOnly ==
    pc = "done" => result = validate_doctags(Canon(text), hashseed)

\* C8: the result of a call is a function of its input alone.  Whatever the
\* iteration order of the terminal set (the order of the pattern's
\* alternatives and of the location-tag alternatives), and whatever calls
\* came before, the tokens are the same and the result is the same.
C8_Determinism ==
    pc = "done" =>
        \A h \in HashSeeds :
            /\ tokenize_input(text, h) = tokens
            /\ validate_doctags(input_dt, h) = result

\* C8 witness: a document with location tags was accepted under an
\* iteration order other than the first.
C8_Witness ==
    /\ Accepted
    /\ hashseed # 1
    /\ \E i \in 1..Len(tokens) : tokens[i] \in Range(LocationTokens)

\* C6: a document of pages separated by single <page_break> tokens, each
\* page holding text items (open tag, four location tags, content, close
\* tag) and/or a table (<otsl>, four location tags, rows of cells separated
\* by <nl>, then <nl> and a caption, then </otsl>), is accepted.
C6_PagesAccepted ==
    (pc = "done" /\ input_dt \in PagesDocs) => result = "True"

\* The documents of that form whose free text is plain are accepted: after
\* the rows, the <nl> before the caption is given back to tableitem.
PlainPagesAccepted ==
    (pc = "done" /\ input_dt \in PlainPagesDocs) => result = "True"

\* C9: a chain of ordered/unordered lists, each holding one list item whose
\* body is the next list, the innermost list item holding optional location
\* tags and optional content, is accepted at every depth; a list with no
\* list item, and a list item that holds both a list and text, are rejected.
C9_ListNesting ==
    pc = "done" =>
        /\ input_dt \in ListChainDocs => result = "True"
        /\ input_dt \in ListNoItemDocs => result = "False"
        /\ input_dt \in ListMixedDocs => result = "False"

\* The chains whose free text, if any, is plain are accepted, and the lists
\* without an item and the items with a list and text are rejected.
PlainListsNest ==
    pc = "done" =>
        /\ input_dt \in PlainListChainDocs => result = "True"
        /\ input_dt \in ListNoItemDocs => result = "False"
        /\ input_dt \in ListMixedDocs => result = "False"

\* The open tags of the items that take location tags.
LocOwners ==
    { Open(label) : label \in Range(text_labels) }
    \cup { Open(SECTION_HEADER_PREFIX \o level) : level \in Range(SectionLevels) }
    \cup { Open(CODE), Open(OTSL), Open(PICTURE) }

\* The number of location tags in a row from tokens[i] on.
RECURSIVE LocRun(_, _)
LocRun(toks, i) ==
    IF i <= Len(toks) /\ toks[i] \in Range(LocationTokens)
    THEN 1 + LocRun(toks, i + 1)
    ELSE 0

\* C10: an item whose open tag is followed by k location tags is accepted
\* only if k = 0 or k = 4: with k in {1, 2, 3} or k >= 5 the document is
\* rejected; a document of one item that is well formed but for its k
\* location tags is accepted with k = 0 and with any four location tags,
\* with and without content.
C10_LocationTags ==
    pc = "done" =>
        /\ \A i \in 1..Len(tokens) :
              (tokens[i] \in LocOwners /\ LocRun(tokens, i + 1) \notin {0, 4})
                  => result = "False"
        /\ \A k \in 0..MaxLocs :
              input_dt \in LocDocs[k] => (result = "True") = (k \in {0, 4})
        /\ input_dt = Doc(Item(TEXT, << >>)) => result = "True"

\* An accepted item with four location tags, one of them twice in a row.
C10_Witness ==
    /\ Accepted
    /\ input_dt \in LocDocs[4]
    /\ \E i \in 1..(Len(tokens) - 1) :
          tokens[i] \in Range(LocationTokens) /\ tokens[i + 1] = tokens[i]

\* The first token from tokens[i] on that closes a caption, 0 if none.
CaptionEnd(toks, i) ==
    LET ends == { j \in i..Len(toks) : toks[j] = Close(CAPTION) }
    IN  IF ends = {} THEN 0 ELSE CHOOSE j \in ends : \A k \in ends : j <= k

\* C11: in a table every <nl> is followed by a row (a cell) or by a caption
\* that ends immediately before </otsl>; otherwise the document is rejected:
\* a last row terminated by <nl> before </otsl>, two consecutive <nl>, and a
\* table starting with <nl> without a caption are rejected, and the tables
\* whose rows are separated by single <nl> are accepted, with or without
\* the <nl> and caption at the end.
C11_RowSeparators ==
    pc = "done" =>
        /\ \A i \in 1..Len(tokens) :
              tokens[i] = OTSL_NL =>
                  \/ i < Len(tokens) /\ tokens[i + 1] \in Range(CellTags)
                  \/ /\ i < Len(tokens)
                     /\ tokens[i + 1] = Open(CAPTION)
                     /\ CaptionEnd(tokens, i + 1) # 0
                     /\ CaptionEnd(tokens, i + 1) < Len(tokens)
                     /\ tokens[CaptionEnd(tokens, i + 1) + 1] = Close(OTSL)
                  \/ result = "False"
        /\ input_dt \in TableDocs[FALSE] => result = "False"
        /\ input_dt \in TableCaptionInside => result = "False"
        /\ input_dt \in TableDocs[TRUE] => result = "True"

\* A rejected table whose last row of two is terminated by <nl> directly
\* before </otsl>.
C11_Witness ==
    /\ Rejected
    /\ input_dt \in TableDocs[FALSE]
    /\ Len(tokens) >= 6
    /\ tokens[Len(tokens) - 1] = Close(OTSL)
    /\ tokens[Len(tokens) - 2] = OTSL_NL
    /\ tokens[Len(tokens) - 3] \in Range(CellTags) \cup { content_symbol }
    /\ \E i \in 1..(Len(tokens) - 4) :
          tokens[i] = OTSL_NL /\ tokens[i + 1] \in Range(CellTags)

====
